---------------------------- MODULE Spec2Model ----------------------------
(***************************************************************************)
(* Model of the MIDC chatbot backend (src/main.py): the /chat request      *)
(* handler and the pure helpers it calls.                                  *)
(*                                                                         *)
(* Text is modelled as a sequence of Unicode code points, so that          *)
(* str.strip(), str.lower(), str.split() and the `in` substring test are   *)
(* computed as Python computes them.  Python's None is NoneVal where a     *)
(* text is expected and NoneStr where an opaque string is expected.        *)
(* confidence_score is kept in hundredths (0.85 is 85), the precision of   *)
(* round(confidence, 2).                                                   *)
(***************************************************************************)
EXTENDS Integers, Sequences, FiniteSets, TLC

\* ------------------------------------------------------------------ bounds

\* A request's question is the concatenation of at most MaxFrags fragments.
MaxFrags == 2
\* The bucket holds at most MaxBlobs blobs.
MaxBlobs == 2
\* build_context inputs of the context-builder specification.
MaxPages == 7
MaxPdfs == 5
MaxPageChunks == 4
MaxPdfChunks == 3

\* --------------------------------------------------------------- constants

NoneVal == <<-1>>
NoneStr == "None"

CONFIDENCE_HIGH == 85
CONFIDENCE_MEDIUM == 60
\* "confidence_score": 0.65 of the internet-mode response
INTERNET_CONFIDENCE == 65
\* the `else 0.0` of the confidence expression
CONFIDENCE_NONE == 0

\* pages[:6], chunks[:3], pdfs[:4], chunks[:2], results[:5], external_links[:5]
PAGE_LIMIT == 6
PAGE_CHUNK_LIMIT == 3
PDF_LIMIT == 4
PDF_CHUNK_LIMIT == 2
RECOMMEND_LIMIT == 5
EXTERNAL_LINK_LIMIT == 5

INTERNET_TRIGGER_KEYWORDS ==
    { <<115, 101, 97, 114, 99, 104, 32, 105, 110, 116, 101, 114, 110, 101, 116>>, \* "search internet"
      <<115, 101, 97, 114, 99, 104, 32, 119, 101, 98>>,                           \* "search web"
      <<111, 117, 116, 115, 105, 100, 101, 32, 109, 105, 100, 99>>,               \* "outside midc"
      <<103, 101, 110, 101, 114, 97, 108, 32, 107, 110, 111, 119, 108, 101, 100, 103, 101>>, \* "general knowledge"
      <<108, 97, 116, 101, 115, 116>>,                                            \* "latest"
      <<110, 101, 119, 115>>,                                                     \* "news"
      <<103, 111, 111, 103, 108, 101>> }                                          \* "google"

\* "The requested information is not available on MIDC's official website."
NOT_AVAILABLE ==
    <<84, 104, 101, 32, 114, 101, 113, 117, 101, 115, 116, 101, 100, 32, 105,
      110, 102, 111, 114, 109, 97, 116, 105, 111, 110, 32, 105, 115, 32, 110,
      111, 116, 32, 97, 118, 97, 105, 108, 97, 98, 108, 101, 32, 111, 110, 32,
      77, 73, 68, 67, 39, 115, 32, 111, 102, 102, 105, 99, 105, 97, 108, 32,
      119, 101, 98, 115, 105, 116, 101, 46>>

FOLLOW_UP_FORM ==
    "I found a form related to this. Would you like me to help you fill it step by step?"
FOLLOW_UP_INTERNET ==
    "I could not find this on MIDC. Should I search the internet for you?"

\* The entity-safety keyword set of the specification's Mode Arbiter
\* (contact / address / phone terms); main.py defines no such set.
ENTITY_SAFETY_KEYWORDS ==
    { <<99, 111, 110, 116, 97, 99, 116>>,        \* "contact"
      <<112, 104, 111, 110, 101>>,               \* "phone"
      <<97, 100, 100, 114, 101, 115, 115>> }     \* "address"

\* ------------------------------------------------------- Python primitives

\* bool(v) of an optional text
Truthy(v) == v # NoneVal /\ v # <<>>

\* str.isspace() of one character
IsSpace(c) ==
    \/ c \in 9..13
    \/ c \in 28..32
    \/ c \in {133, 160, 5760, 8232, 8233, 8239, 8287, 12288}
    \/ c \in 8192..8202

\* str.strip()
Strip(s) ==
    LET keep == { i \in 1..Len(s) : ~IsSpace(s[i]) }
    IN  IF keep = {} THEN <<>>
        ELSE LET lo == CHOOSE i \in keep : \A j \in keep : i <= j
                 hi == CHOOSE i \in keep : \A j \in keep : j <= i
             IN  SubSeq(s, lo, hi)

\* str.lower() of one character: the ASCII capitals; the Devanagari block and
\* the other characters of the modelled alphabet have no case.
LowerChar(c) == IF c \in 65..90 THEN c + 32 ELSE c

\* str.lower()
Lower(s) == [i \in 1..Len(s) |-> LowerChar(s[i])]

\* needle in hay
Contains(hay, needle) ==
    \E i \in 0..(Len(hay) - Len(needle)) :
        SubSeq(hay, i + 1, i + Len(needle)) = needle

\* str.split(): the maximal runs of non-whitespace characters, in order
RECURSIVE SplitFrom(_, _, _)
SplitFrom(s, i, word) ==
    IF i > Len(s)
    THEN IF word = <<>> THEN <<>> ELSE <<word>>
    ELSE IF IsSpace(s[i])
         THEN (IF word = <<>> THEN <<>> ELSE <<word>>) \o SplitFrom(s, i + 1, <<>>)
         ELSE SplitFrom(s, i + 1, Append(word, s[i]))

Split(s) == SplitFrom(s, 1, <<>>)

\* seq[:n]
Take(seq, n) == SubSeq(seq, 1, IF Len(seq) < n THEN Len(seq) ELSE n)

\* the concatenation of a sequence of sequences (list.extend in a loop)
RECURSIVE Flatten(_)
Flatten(ss) == IF ss = <<>> THEN <<>> ELSE Head(ss) \o Flatten(Tail(ss))

\* the set of a list's elements
Range(seq) == { seq[i] : i \in 1..Len(seq) }


\* --------------------------------------------------------- pure functions

\* detect_language: "mr" when a character lies in the Devanagari block
detect_language(text) ==
    IF \E i \in 1..Len(text) : text[i] >= 2304 /\ text[i] <= 2431
    THEN "mr" ELSE "en"

\* the language_instruction of chat()
language_instruction(language) ==
    IF language = "mr" THEN "Respond in Marathi." ELSE "Respond in English."

\* Faulty variant of is_internet_query: the question is not lower-cased
is_internet_query_case_sensitive(q, m) ==
    \/ m = "internet"
    \/ \E k \in INTERNET_TRIGGER_KEYWORDS : Contains(q, k)

\* is_internet_query
is_internet_query(q, m) ==
    \/ m = "internet"
    \/ \E k \in INTERNET_TRIGGER_KEYWORDS : Contains(Lower(q), k)

\* One blob of the bucket: whether its name ends in ".json", whether
\* json.loads and the metadata lookups succeed on it, and the JSON object.
\* type is metadata.type (NoneStr: key absent), keywords is metadata.keywords.
Doc(type, title, source_url, url, chunks, keywords) ==
    [type |-> type, title |-> title, source_url |-> source_url, url |-> url,
     chunks |-> chunks, keywords |-> keywords]

Blob(json_name, parses, data) ==
    [json_name |-> json_name, parses |-> parses, data |-> data]

\* the chunks of document `doc` of kind `kind`: n texts, told apart by position
ChunksOf(kind, doc, n) == [k \in 1..n |-> <<kind, doc, k>>]

\* load_all_content on a listing that succeeded: the four lists by type
load_all_content(bucket) ==
    LET Loaded(b) == b.json_name /\ b.parses
        IsPdf(b) == Loaded(b) /\ b.data.type = "pdf"
        IsForm(b) == Loaded(b) /\ b.data.type = "form"
        IsExternal(b) == Loaded(b) /\ b.data.type = "external"
        IsPage(b) == Loaded(b) /\ b.data.type \notin {"pdf", "form", "external"}
        DataOf(bs) == [i \in 1..Len(bs) |-> bs[i].data]
    IN  [pages |-> DataOf(SelectSeq(bucket, IsPage)),
         pdfs |-> DataOf(SelectSeq(bucket, IsPdf)),
         forms |-> DataOf(SelectSeq(bucket, IsForm)),
         external_links |-> DataOf(SelectSeq(bucket, IsExternal))]

\* Faulty variant of context_chunks: the PDFs are cut like the pages
context_chunks_pdf_as_page(ps, ds) ==
    LET fromPages == [i \in 1..Len(Take(ps, PAGE_LIMIT)) |->
                         Take(ps[i].chunks, PAGE_CHUNK_LIMIT)]
        fromPdfs == [i \in 1..Len(Take(ds, PAGE_LIMIT)) |->
                         Take(ds[i].chunks, PAGE_CHUNK_LIMIT)]
    IN  Flatten(fromPages) \o Flatten(fromPdfs)

\* the `chunks` list of build_context before the join
context_chunks(ps, ds) ==
    LET fromPages == [i \in 1..Len(Take(ps, PAGE_LIMIT)) |->
                         Take(ps[i].chunks, PAGE_CHUNK_LIMIT)]
        fromPdfs == [i \in 1..Len(Take(ds, PDF_LIMIT)) |->
                         Take(ds[i].chunks, PDF_CHUNK_LIMIT)]
    IN  Flatten(fromPages) \o Flatten(fromPdfs)

\* the "\n\n" separator of the join
SEP == <<"sep", 0, 0>>

\* "\n\n".join(chunks): the chunks with one separator between neighbours
Join(chunks) ==
    IF chunks = <<>> THEN <<>>
    ELSE [i \in 1..(2 * Len(chunks) - 1) |->
             IF i % 2 = 1 THEN chunks[(i + 1) \div 2] ELSE SEP]

\* build_context
build_context(ps, ds) == Join(context_chunks(ps, ds))

\* detect_relevant_forms
detect_relevant_forms(q, fs) ==
    LET Matches(f) == \E k \in Range(f.keywords) : Contains(Lower(q), Lower(k))
    IN  SelectSeq(fs, Matches)

\* recommend_pages
recommend_pages(q, ps) ==
    LET Matches(p) == /\ Truthy(p.title)
                      /\ \E w \in Range(Split(Lower(p.title))) : Contains(Lower(q), w)
        hits == SelectSeq(ps, Matches)
        results == [i \in 1..Len(hits) |->
                       [title |-> hits[i].title, url |-> hits[i].source_url]]
    IN  Take(results, RECOMMEND_LIMIT)

\* the value internet_answer returns for the text of the model's response
internet_answer(text) == IF Truthy(text) THEN text ELSE NoneVal

\* the `answer` of the MIDC branch for the text of the model's response
midc_answer(text) == IF Truthy(text) THEN Strip(text) ELSE NoneVal

\* the confidence expression of the MIDC branch
midc_confidence(ans) == IF Truthy(ans) THEN CONFIDENCE_HIGH ELSE CONFIDENCE_NONE

\* Faulty variant of follow_up_state: the `elif not answer` branch sets the
\* message and leaves should_follow_up False
follow_up_state_flag_forgotten(ans, matched) ==
    IF matched # <<>>
    THEN [follow_up_message |-> FOLLOW_UP_FORM, should_follow_up |-> TRUE]
    ELSE IF ~Truthy(ans)
         THEN [follow_up_message |-> FOLLOW_UP_INTERNET, should_follow_up |-> FALSE]
         ELSE [follow_up_message |-> NoneStr, should_follow_up |-> FALSE]

\* follow_up and should_follow_up of the MIDC branch
follow_up_state(ans, matched) ==
    IF matched # <<>>
    THEN [follow_up_message |-> FOLLOW_UP_FORM, should_follow_up |-> TRUE]
    ELSE IF ~Truthy(ans)
         THEN [follow_up_message |-> FOLLOW_UP_INTERNET, should_follow_up |-> TRUE]
         ELSE [follow_up_message |-> NoneStr, should_follow_up |-> FALSE]

\* all orderings of a finite set, as lists
RECURSIVE Orderings(_)
Orderings(S) ==
    IF S = {} THEN { <<>> }
    ELSE UNION { { <<x>> \o rest : rest \in Orderings(S \ {x}) } : x \in S }

\* the lists "sources" may be: the set of truthy source_url values of the
\* pages, in the iteration order of a Python set (any order)
response_sources(ps) ==
    Orderings({ ps[i].source_url : i \in { j \in 1..Len(ps) : Truthy(ps[j].source_url) } })

\* "external_links" of the response
response_external_links(ls) ==
    LET first == Take(ls, EXTERNAL_LINK_LIMIT)
    IN  [i \in 1..Len(first) |-> [title |-> first[i].title, url |-> first[i].url]]

\* ------------------------------------------------------------ environment

\* body.get("question", "") when the key is absent gives "" (MissingKey); a
\* JSON null, like any value that is not a string, gives a value without
\* .strip() (NoneVal).
MissingKey == <<-2>>

Fragments ==
    { <<32>>,                                \* " "
      <<78, 101, 119, 115>>,                 \* "News"
      <<99, 111, 110, 116, 97, 99, 116>>,    \* "contact"
      <<108, 97, 110, 100>>,                 \* "land"
      <<2350>> }                             \* Devanagari letter MA

RECURSIVE Texts(_)
Texts(n) ==
    IF n = 0 THEN { <<>> }
    ELSE Texts(n - 1) \cup { t \o f : t \in Texts(n - 1), f \in Fragments }

RawQuestions == Texts(MaxFrags) \cup { MissingKey, NoneVal }

Modes == { NoneStr, "internet", "midc" }

\* method: the HTTP method; body: "none" (no or invalid JSON, or a falsy JSON
\* value), "object" (a JSON object with the two keys below) or "other" (a
\* truthy JSON value without .get, such as a list)
Requests ==
    { [method |-> "OPTIONS", body |-> "none", question |-> MissingKey, mode |-> NoneStr],
      [method |-> "POST", body |-> "none", question |-> MissingKey, mode |-> NoneStr],
      [method |-> "POST", body |-> "other", question |-> MissingKey, mode |-> NoneStr] }
    \cup { [method |-> "POST", body |-> "object", question |-> q, mode |-> m] :
             q \in RawQuestions, m \in Modes }

\* the URLs "u1", "u2" and "e1"
U1 == <<117, 49>>
U2 == <<117, 50>>
E1 == <<101, 49>>

BlobKinds ==
    { Blob(FALSE, TRUE, Doc(NoneStr, NoneVal, NoneVal, NoneVal, <<>>, <<>>)),     \* readme.txt
      Blob(TRUE, FALSE, Doc(NoneStr, NoneVal, NoneVal, NoneVal, <<>>, <<>>)),     \* not a JSON object
      Blob(TRUE, TRUE, Doc(NoneStr, <<67, 111, 110, 116, 97, 99, 116, 32, 117, 115>>,
                           U1, NoneVal, ChunksOf("page", 1, 4), <<>>)),           \* page "Contact us"
      Blob(TRUE, TRUE, Doc("page", NoneVal, NoneVal, NoneVal,
                           ChunksOf("page", 2, 1), <<>>)),                        \* page, no title, no url
      Blob(TRUE, TRUE, Doc("page", <<>>, U2, NoneVal, <<>>, <<>>)),               \* page, title "", no chunks
      Blob(TRUE, TRUE, Doc("pdf", NoneVal, NoneVal, NoneVal,
                           ChunksOf("pdf", 1, 3), <<>>)),
      Blob(TRUE, TRUE, Doc("form", NoneVal, NoneVal, NoneVal, <<>>,
                           << <<76, 97, 110, 100>> >>)),                          \* keywords ["Land"]
      Blob(TRUE, TRUE, Doc("external", <<80>>, NoneVal, E1, <<>>, <<>>)),         \* link "P" to e1
      Blob(TRUE, TRUE, Doc("external", <<81>>, NoneVal, E1, <<>>, <<>>)) }        \* link "Q" to e1

RECURSIVE Buckets(_)
Buckets(n) ==
    IF n = 0 THEN { <<>> }
    ELSE Buckets(n - 1) \cup { Append(b, k) : b \in Buckets(n - 1), k \in BlobKinds }

\* response.text of the model call: None, "", " ", " ok ", the wording of
\* NOT_AVAILABLE
ModelTexts == { NoneVal, <<>>, <<32>>, <<32, 111, 107, 32>>, NOT_AVAILABLE }

\* ------------------------------------------------------------------ state

VARIABLES
    request,          \* the HTTP request being handled
    pc,               \* the stage of chat() that has completed
    status,           \* HTTP status returned (0: none yet)
    error,            \* "error" of an error response
    question, mode,   \* locals of chat()
    language,
    route,            \* the branch taken at `if is_internet_query(...)`
    content,          \* pages, pdfs, forms, external_links of load_all_content
    context, matched_forms, recommended,
    model_reply,      \* what generate_content did: raised, or response.text
    answer,
    response,         \* the dict handed to jsonify
    modelCalls,       \* calls of genai_client.models.generate_content
    repoReads,        \* calls of bucket.list_blobs
    trace             \* the stages completed, in order

vars == <<request, pc, status, error, question, mode, language, route, content,
          context, matched_forms, recommended, model_reply, answer, response,
          modelCalls, repoReads, trace>>

NoReply == [raised |-> FALSE, text |-> NoneVal]

NoContent == [pages |-> <<>>, pdfs |-> <<>>, forms |-> <<>>, external_links |-> <<>>]

NoResponse ==
    [answer |-> NoneVal, confidence_score |-> 0, sources |-> <<>>,
     external_links |-> <<>>, forms_detected |-> <<>>, recommended_pages |-> <<>>,
     intent |-> NoneStr, should_follow_up |-> FALSE, follow_up_message |-> NoneStr]

Fresh ==
    /\ pc = "Received"
    /\ status = 0
    /\ error = NoneStr
    /\ question = NoneVal
    /\ mode = NoneStr
    /\ language = NoneStr
    /\ route = NoneStr
    /\ content = NoContent
    /\ context = <<>>
    /\ matched_forms = <<>>
    /\ recommended = <<>>
    /\ model_reply = NoReply
    /\ answer = NoneVal
    /\ response = NoResponse
    /\ modelCalls = 0
    /\ repoReads = 0
    /\ trace = <<>>

Init == request \in Requests /\ Fresh

\* ---------------------------------------------------------------- chat()

\* if request.method == "OPTIONS": return jsonify({}), 200
Preflight ==
    /\ pc = "Received"
    /\ request.method = "OPTIONS"
    /\ pc' = "Preflight"
    /\ status' = 200
    /\ UNCHANGED <<request, error, question, mode, language, route, content,
                   context, matched_forms, recommended, model_reply, answer, response,
                   modelCalls, repoReads, trace>>

\* body.get on a body without .get, or .strip() on a question that is not a
\* string, raises; Flask answers 500
ParseFault ==
    /\ pc = "Received"
    /\ request.method = "POST"
    /\ \/ request.body = "other"
       \/ request.body = "object" /\ request.question = NoneVal
    /\ pc' = "Fault"
    /\ status' = 500
    /\ UNCHANGED <<request, error, question, mode, language, route, content,
                   context, matched_forms, recommended, model_reply, answer, response,
                   modelCalls, repoReads, trace>>

\* Faulty variant of parsed_question: .strip() is left out
parsed_question_unstripped(req) ==
    IF req.body = "none" \/ req.question = MissingKey
    THEN <<>>
    ELSE req.question

\* the question of a body that ParseFault does not take, stripped
parsed_question(req) ==
    IF req.body = "none" \/ req.question = MissingKey
    THEN Strip(<<>>)
    ELSE Strip(req.question)

Parses(req) ==
    /\ req.method = "POST"
    /\ req.body # "other"
    /\ ~(req.body = "object" /\ req.question = NoneVal)

\* if not question: return jsonify({"error": "Question required"}), 400
Reject ==
    /\ pc = "Received"
    /\ Parses(request)
    /\ ~Truthy(parsed_question(request))
    /\ pc' = "Rejected"
    /\ status' = 400
    /\ error' = "Question required"
    /\ UNCHANGED <<request, question, mode, language, route, content, context,
                   matched_forms, recommended, model_reply, answer, response, modelCalls,
                   repoReads, trace>>

\* the request enters the pipeline
Accept ==
    /\ pc = "Received"
    /\ Parses(request)
    /\ Truthy(parsed_question(request))
    /\ question' = parsed_question(request)
    /\ mode' = IF request.body = "object" THEN request.mode ELSE NoneStr
    /\ pc' = "Start"
    /\ trace' = <<"Start">>
    /\ UNCHANGED <<request, status, error, language, route, content, context,
                   matched_forms, recommended, model_reply, answer, response, modelCalls,
                   repoReads>>

\* language = detect_language(question)
DetectLanguage ==
    /\ pc = "Start"
    /\ language' = detect_language(question)
    /\ pc' = "LanguageDetected"
    /\ trace' = Append(trace, "LanguageDetected")
    /\ UNCHANGED <<request, status, error, question, mode, route, content,
                   context, matched_forms, recommended, model_reply, answer, response,
                   modelCalls, repoReads>>

\* if is_internet_query(question, mode):
DecideMode ==
    /\ pc = "LanguageDetected"
    /\ route' = IF is_internet_query(question, mode) THEN "internet" ELSE "midc"
    /\ pc' = "ModeDecided"
    /\ trace' = Append(trace, "ModeDecided")
    /\ UNCHANGED <<request, status, error, question, mode, language, content,
                   context, matched_forms, recommended, model_reply, answer, response,
                   modelCalls, repoReads>>

\* the dict of the internet branch
internet_response(ans) ==
    [answer |-> ans, confidence_score |-> INTERNET_CONFIDENCE,
     sources |-> << <<71, 111, 111, 103, 108, 101, 32, 83, 101, 97, 114, 99, 104>> >>, \* ["Google Search"]
     external_links |-> <<>>, forms_detected |-> <<>>, recommended_pages |-> <<>>,
     intent |-> "internet", should_follow_up |-> FALSE,
     follow_up_message |-> NoneStr]

\* the dict of the MIDC branch; srcs is the order the set of sources came in.
\* last_interaction_ts, the clock's reading, is left out.
midc_response(ans, matched, rec, srcs, links) ==
    [answer |-> IF Truthy(ans) THEN ans ELSE NOT_AVAILABLE,
     confidence_score |-> midc_confidence(ans),
     sources |-> srcs,
     external_links |-> response_external_links(links),
     forms_detected |-> matched,
     recommended_pages |-> rec,
     intent |-> "midc",
     should_follow_up |-> follow_up_state(ans, matched).should_follow_up,
     follow_up_message |-> follow_up_state(ans, matched).follow_up_message]

\* answer = internet_answer(question, language_instruction): the call returns
InternetAnswer ==
    /\ pc = "ModeDecided"
    /\ route = "internet"
    /\ \E text \in ModelTexts :
          /\ model_reply' = [raised |-> FALSE, text |-> text]
          /\ answer' = internet_answer(text)
    /\ modelCalls' = modelCalls + 1
    /\ pc' = "AnswerGenerated"
    /\ trace' = Append(trace, "AnswerGenerated")
    /\ UNCHANGED <<request, status, error, question, mode, language, route,
                   content, context, matched_forms, recommended, response,
                   repoReads>>

\* generate_content raises inside internet_answer: nothing catches it
InternetFault ==
    /\ pc = "ModeDecided"
    /\ route = "internet"
    /\ model_reply' = [raised |-> TRUE, text |-> NoneVal]
    /\ modelCalls' = modelCalls + 1
    /\ pc' = "Fault"
    /\ status' = 500
    /\ UNCHANGED <<request, error, question, mode, language, route, content,
                   context, matched_forms, recommended, answer, response,
                   repoReads, trace>>

\* the dict literal of the internet branch
InternetEnrich ==
    /\ pc = "AnswerGenerated"
    /\ route = "internet"
    /\ response' = internet_response(answer)
    /\ pc' = "Enriched"
    /\ trace' = Append(trace, "Enriched")
    /\ UNCHANGED <<request, status, error, question, mode, language, route,
                   content, context, matched_forms, recommended, model_reply, answer,
                   modelCalls, repoReads>>

\* pages, pdfs, forms, external_links = load_all_content()
LoadContent ==
    /\ pc = "ModeDecided"
    /\ route = "midc"
    /\ \E bucket \in Buckets(MaxBlobs) : content' = load_all_content(bucket)
    /\ repoReads' = repoReads + 1
    /\ pc' = "DocumentsSelected"
    /\ trace' = Append(trace, "DocumentsSelected")
    /\ UNCHANGED <<request, status, error, question, mode, language, route,
                   context, matched_forms, recommended, model_reply, answer, response,
                   modelCalls>>

\* bucket.list_blobs() raises (the bucket cannot be reached): it is outside
\* the try of load_all_content
LoadFault ==
    /\ pc = "ModeDecided"
    /\ route = "midc"
    /\ repoReads' = repoReads + 1
    /\ pc' = "Fault"
    /\ status' = 500
    /\ UNCHANGED <<request, error, question, mode, language, route, content,
                   context, matched_forms, recommended, model_reply, answer, response,
                   modelCalls, trace>>

\* context = build_context(pages, pdfs); matched_forms = ...; recommended = ...
BuildContext ==
    /\ pc = "DocumentsSelected"
    /\ context' = build_context(content.pages, content.pdfs)
    /\ matched_forms' = detect_relevant_forms(question, content.forms)
    /\ recommended' = recommend_pages(question, content.pages)
    /\ pc' = "ContextAssembled"
    /\ trace' = Append(trace, "ContextAssembled")
    /\ UNCHANGED <<request, status, error, question, mode, language, route,
                   content, model_reply, answer, response, modelCalls,
                   repoReads>>

\* response = generate_content(...); answer = response.text.strip() if ... else None
GenerateAnswer ==
    /\ pc = "ContextAssembled"
    /\ \E text \in ModelTexts :
          /\ model_reply' = [raised |-> FALSE, text |-> text]
          /\ answer' = midc_answer(text)
    /\ modelCalls' = modelCalls + 1
    /\ pc' = "AnswerGenerated"
    /\ trace' = Append(trace, "AnswerGenerated")
    /\ UNCHANGED <<request, status, error, question, mode, language, route,
                   content, context, matched_forms, recommended, response,
                   repoReads>>

\* generate_content raises in the MIDC branch: nothing catches it
ModelFault ==
    /\ pc = "ContextAssembled"
    /\ model_reply' = [raised |-> TRUE, text |-> NoneVal]
    /\ modelCalls' = modelCalls + 1
    /\ pc' = "Fault"
    /\ status' = 500
    /\ UNCHANGED <<request, error, question, mode, language, route, content,
                   context, matched_forms, recommended, answer, response,
                   repoReads, trace>>

\* confidence, follow_up, should_follow_up and the dict of the MIDC branch
Enrich ==
    /\ pc = "AnswerGenerated"
    /\ route = "midc"
    /\ \E srcs \in response_sources(content.pages) :
          response' = midc_response(answer, matched_forms, recommended, srcs,
                                    content.external_links)
    /\ pc' = "Enriched"
    /\ trace' = Append(trace, "Enriched")
    /\ UNCHANGED <<request, status, error, question, mode, language, route,
                   content, context, matched_forms, recommended, model_reply, answer,
                   modelCalls, repoReads>>

\* return jsonify({...})
Return ==
    /\ pc = "Enriched"
    /\ status' = 200
    /\ pc' = "Done"
    /\ trace' = Append(trace, "Done")
    /\ UNCHANGED <<request, error, question, mode, language, route, content,
                   context, matched_forms, recommended, model_reply, answer, response,
                   modelCalls, repoReads>>

Next ==
    \/ Preflight
    \/ ParseFault
    \/ Reject
    \/ Accept
    \/ DetectLanguage
    \/ DecideMode
    \/ InternetAnswer
    \/ InternetFault
    \/ InternetEnrich
    \/ LoadContent
    \/ LoadFault
    \/ BuildContext
    \/ GenerateAnswer
    \/ ModelFault
    \/ Enrich
    \/ Return

Spec == Init /\ [][Next]_vars

\* ------------------------------------------- build_context on long lists

\* lists of n documents of one kind, each with one of the chunk counts
RECURSIVE DocLists(_, _, _)
DocLists(kind, n, counts) ==
    IF n = 0 THEN { <<>> }
    ELSE DocLists(kind, n - 1, counts) \cup
         { Append(ds, Doc(IF kind = "pdf" THEN "pdf" ELSE "page", NoneVal, NoneVal,
                          NoneVal, ChunksOf(kind, Len(ds) + 1, c), <<>>)) :
             ds \in { d \in DocLists(kind, n - 1, counts) : Len(d) = n - 1 },
             c \in counts }

\* chat() after load_all_content returned up to MaxPages pages and MaxPdfs
\* PDFs, each with fewer or more chunks than its cap
InitContext ==
    /\ request = [method |-> "POST", body |-> "object",
                  question |-> <<108, 97, 110, 100>>, mode |-> NoneStr]
    /\ pc = "DocumentsSelected"
    /\ status = 0
    /\ error = NoneStr
    /\ question = <<108, 97, 110, 100>>
    /\ mode = NoneStr
    /\ language = "en"
    /\ route = "midc"
    /\ \E ps \in DocLists("page", MaxPages, {1, MaxPageChunks}),
          ds \in DocLists("pdf", MaxPdfs, {0, MaxPdfChunks}) :
          content = [pages |-> ps, pdfs |-> ds, forms |-> <<>>, external_links |-> <<>>]
    /\ context = <<>>
    /\ matched_forms = <<>>
    /\ recommended = <<>>
    /\ model_reply = NoReply
    /\ answer = NoneVal
    /\ response = NoResponse
    /\ modelCalls = 0
    /\ repoReads = 1
    /\ trace = <<"Start", "LanguageDetected", "ModeDecided", "DocumentsSelected">>

NextContext == BuildContext

SpecContext == InitContext /\ [][NextContext]_vars

\* ------------------------------------------------------------ properties

\* the question holds an entity-safety keyword
HasEntityKeyword(q) == \E k \in ENTITY_SAFETY_KEYWORDS : Contains(Lower(q), k)

\* the lower-cased question holds a trigger phrase, character by character
HasTriggerPhrase(q) ==
    \E k \in INTERNET_TRIGGER_KEYWORDS : \E start \in 1..Len(q) :
        /\ start + Len(k) - 1 <= Len(q)
        /\ \A j \in 1..Len(k) :
              (IF q[start + j - 1] \in 65..90 THEN q[start + j - 1] + 32
               ELSE q[start + j - 1]) = k[j]

\* chat() has returned the pipeline's response
Responded == pc = "Done"

NoDuplicates(seq) ==
    \A i, j \in 1..Len(seq) : i # j => seq[i] # seq[j]

\* C1: a question holding an entity-safety keyword is routed to the MIDC
\* (internal) branch, whatever the mode flag and the trigger phrases say.
C1_EntitySafetyForcesInternal ==
    (route # NoneStr /\ HasEntityKeyword(question)) => route = "midc"

\* the model call raised, or its text was None or empty
ModelCallFailed ==
    /\ modelCalls > 0
    /\ model_reply.raised \/ model_reply.text \in { NoneVal, <<>> }

\* C2: in either branch, when the model call raises or gives no text the
\* request does not fault, and the response it returns has status 200 and the
\* NOT_AVAILABLE text as its answer.
C2_ModelFailureGivesSentinel ==
    ModelCallFailed =>
        /\ pc # "Fault"
        /\ Responded => status = 200 /\ response.answer = NOT_AVAILABLE

\* C3: a MIDC-branch response built from an empty repository carries the
\* fallback text, confidence 0.0 and no forms or recommended pages, whatever
\* the model returned.
C3_EmptyRepositoryIsUnavailable ==
    (Responded /\ route = "midc" /\ content = NoContent) =>
        /\ response.answer = NOT_AVAILABLE
        /\ response.confidence_score = 0
        /\ response.forms_detected = <<>>
        /\ response.recommended_pages = <<>>

\* C4: every response's confidence lies in [0, 1], and a response whose
\* answer is the NOT_AVAILABLE text, or null, has the low confidence 0.0.
C4_SentinelHasLowConfidence ==
    Responded =>
        /\ response.confidence_score \in 0..100
        /\ response.answer \in { NOT_AVAILABLE, NoneVal } =>
               response.confidence_score = CONFIDENCE_NONE

\* the request's question is absent, empty or only whitespace
BlankQuestion(req) ==
    /\ req.method = "POST"
    /\ \/ req.body = "none"
       \/ /\ req.body = "object"
          /\ req.question # NoneVal
          /\ \/ req.question = MissingKey
             \/ \A i \in 1..Len(req.question) : IsSpace(req.question[i])

\* C5: a request whose question is absent, empty or only whitespace is
\* answered 400 "Question required" and nothing of the pipeline runs for it:
\* no language, no route, no read of the bucket, no model call.
C5_BlankQuestionRejected ==
    (BlankQuestion(request) /\ pc # "Received") =>
        /\ pc = "Rejected"
        /\ status = 400
        /\ error = "Question required"
        /\ question = NoneVal
        /\ language = NoneStr
        /\ route = NoneStr
        /\ repoReads = 0
        /\ modelCalls = 0
        /\ trace = <<>>

C5_Witness ==
    /\ pc = "Rejected"
    /\ request.body = "object"
    /\ request.question = <<32, 32>>

\* the stages of a request, by branch
StagesOf(r) ==
    IF r = "internet"
    THEN <<"Start", "LanguageDetected", "ModeDecided", "AnswerGenerated",
           "Enriched", "Done">>
    ELSE <<"Start", "LanguageDetected", "ModeDecided", "DocumentsSelected",
           "ContextAssembled", "AnswerGenerated", "Enriched", "Done">>

IsPrefix(a, b) == Len(a) <= Len(b) /\ SubSeq(b, 1, Len(a)) = a

\* the stages completed so far are the first stages of the request's branch,
\* in order, and the model was called at most once, after them
StagesInOrder ==
    /\ route = NoneStr => IsPrefix(trace, StagesOf("internet"))
    /\ route # NoneStr => IsPrefix(trace, StagesOf(route))
    /\ modelCalls <= 1
    /\ modelCalls = 1 =>
          trace[Len(trace)] \in { "ModeDecided", "ContextAssembled",
                                  "AnswerGenerated", "Enriched", "Done" }

\* C6: an accepted request walks the stages of its branch in order, ends in
\* Done, and has called the model exactly once when it ends.
C6_EveryRequestWalksToDone ==
    trace # <<>> =>
        /\ StagesInOrder
        /\ pc # "Fault"
        /\ pc = "Done" => trace = StagesOf(route) /\ modelCalls = 1

\* What holds of C6 in the code: the order of the stages and the single model
\* call; a request that faults stops where it faulted.
C6_OrderAndSingleCall ==
    trace # <<>> =>
        /\ StagesInOrder
        /\ pc = "Done" => trace = StagesOf(route) /\ modelCalls = 1
        /\ pc = "Fault" => modelCalls + repoReads >= 1

\* C7 as claimed: a MIDC response has should_follow_up true when a follow-up
\* message exists, when forms or recommended pages were found, or when the
\* confidence exceeds 0.3.
C7_FollowUpAsClaimed ==
    ( /\ Responded
      /\ route = "midc"
      /\ \/ response.follow_up_message # NoneStr
         \/ response.forms_detected # <<>>
         \/ response.recommended_pages # <<>>
         \/ response.confidence_score > 30 )
    => response.should_follow_up

\* C7 as amended: a MIDC response has should_follow_up true exactly when a
\* follow-up message exists, which is exactly when forms were detected or no
\* answer was produced (confidence 0.0); recommended pages and the confidence
\* 0.85 of a produced answer do not set it.
C7_FollowUpIffMessage ==
    (Responded /\ route = "midc") =>
        /\ response.should_follow_up <=> response.follow_up_message # NoneStr
        /\ response.should_follow_up <=>
              (response.forms_detected # <<>> \/ response.confidence_score = 0)
        /\ response.confidence_score \in { 0, 85 }

C7_Witness ==
    /\ Responded
    /\ route = "midc"
    /\ response.recommended_pages # <<>>
    /\ response.forms_detected # <<>>
    /\ response.confidence_score = 85
    /\ response.follow_up_message = FOLLOW_UP_FORM
    /\ response.should_follow_up

\* C8: the sources and the external_links of a response hold no URL twice.
C8_NoDuplicateUrls ==
    Responded =>
        /\ NoDuplicates(response.sources)
        /\ NoDuplicates([i \in 1..Len(response.external_links) |->
                            response.external_links[i].url])

\* C9: for a question without an entity-safety keyword the internet branch
\* is taken exactly when mode is "internet" or the lower-cased question holds
\* a trigger phrase.
C9_InternetIffFlagOrTrigger ==
    (route # NoneStr /\ ~HasEntityKeyword(question)) =>
        (route = "internet" <=> (mode = "internet" \/ HasTriggerPhrase(question)))

C9_Witness ==
    /\ route = "internet"
    /\ mode = "midc"
    /\ ~HasEntityKeyword(question)
    /\ question = <<78, 101, 119, 115, 108, 97, 110, 100>>

\* the chunks of the built context, without the separators
ContextChunks == SelectSeq(context, LAMBDA c : c # SEP)

\* C10: the built context takes at most 3 chunks of a page and 2 of a PDF,
\* only of the first 6 pages and first 4 PDFs, each document's chunks
\* together, in the order of the repository, and at most 26 in all.
C10_ContextBounded ==
    pc = "ContextAssembled" =>
        LET cc == ContextChunks
            n == Len(cc)
            SameDoc(a, b) == a[1] = b[1] /\ a[2] = b[2]
            From(kind, d) == { i \in 1..n : cc[i][1] = kind /\ cc[i][2] = d }
        IN  /\ n <= 26
            /\ context # <<>> => Len(context) = 2 * n - 1
            /\ \A i \in 1..n :
                  /\ cc[i][1] = "page" =>
                        /\ cc[i][2] <= 6
                        /\ cc[i][2] <= Len(content.pages)
                        /\ cc[i] \in Range(content.pages[cc[i][2]].chunks)
                  /\ cc[i][1] = "pdf" =>
                        /\ cc[i][2] <= 4
                        /\ cc[i][2] <= Len(content.pdfs)
                        /\ cc[i] \in Range(content.pdfs[cc[i][2]].chunks)
            /\ \A d \in 1..Len(content.pages) : Cardinality(From("page", d)) <= 3
            /\ \A d \in 1..Len(content.pdfs) : Cardinality(From("pdf", d)) <= 2
            /\ \A i, j \in 1..n :
                  i < j =>
                     /\ SameDoc(cc[i], cc[j]) =>
                           /\ cc[i][3] < cc[j][3]
                           /\ SameDoc(cc[i], cc[i + 1])
                     /\ (cc[i][1] = cc[j][1] /\ cc[i][2] # cc[j][2]) =>
                           cc[i][2] < cc[j][2]

C10_Witness ==
    /\ pc = "ContextAssembled"
    /\ Len(content.pages) = 7
    /\ Len(content.pdfs) = 5
    /\ Len(ContextChunks) = 26

=============================================================================
